---- MODULE Spec2Model ----
(***************************************************************************)
(* A model of kitt's process controller (src/src/process.rs): the Process  *)
(* wrapper, its launch / attach / resume / wait_on_signal operations and   *)
(* its Drop implementation, together with the part of the kernel's         *)
(* process, signal and ptrace behaviour those operations depend on.        *)
(*                                                                         *)
(* The debugger is single threaded.  An operation is split into steps      *)
(* exactly where it issues a system call, so that the traced program's own *)
(* steps (trap, exit, being killed) interleave with it as they do on a     *)
(* real machine.  A blocking call (read of the pipe, waitpid) is a step    *)
(* that is enabled only once the call can return.                          *)
(*                                                                         *)
(* Modelling decisions about the environment:                              *)
(*  - process identifiers are not recycled: fork always returns a fresh    *)
(*    pid;                                                                 *)
(*  - a signal sent with kill, and the SIGSTOP sent by PTRACE_ATTACH, act  *)
(*    at the instant they are sent;                                        *)
(*  - PTRACE_TRACEME in the freshly forked child succeeds;                 *)
(*  - at most one process exists before the debugger starts; it is not    *)
(*    the debugger's child (the target of `kitt -p <pid>`).  Every other   *)
(*    process is forked by launch.                                         *)
(*                                                                         *)
(* Further specifications over the same variables:                         *)
(*  - LaunchSpec: launch and drop only, with the fairness of the parent's  *)
(*    and the child's steps, for the termination of launch's pipe read;    *)
(*  - ReplSpec: main and its command loop (src/src/main.rs) driving one    *)
(*    Process value, with the text the loop prints;                        *)
(*  - RegSpec: one write, fetch and read of a register, and Value::widen   *)
(*    (src/src/registers.rs, registers/values.rs, reg_macros.rs) on a      *)
(*    snapshot with the layout of libc's `user` on x86-64.                 *)
(***************************************************************************)
EXTENDS Naturals, Integers, Sequences, FiniteSets, TLC

\* Largest process identifier in the model; pid 0 is the invalid identifier.
MaxPid == 1
\* Number of Process values that can exist at the same time.
MaxCtl == 2

VARIABLES
    procs,   \* the kernel's view of every process identifier
    ctl,     \* the Process values (struct Process, process.rs 99-104)
    pc,      \* where the debugger's single thread is
    cur,     \* the Process value the running operation works on
    chan,    \* the pipe of the launch in progress, with launch's arguments
    calls,   \* signal / ptrace / wait system calls issued by the current operation
    last,    \* the current (or last completed) operation and its result
    sh,      \* the debugger's session: main and its command loop (main.rs)
    rg       \* the register subsystem: snapshot, user area, last access (registers.rs)

vars == <<procs, ctl, pc, cur, chan, calls, last, sh, rg>>

Pids == 1..MaxPid
\* Identifiers that may belong to a process that exists before the debugger
\* starts (the target of `-p <pid>`); whether one does is chosen in Init.
ExtPids == {1}
CtlIds == 1..MaxCtl
NoCtl == 0

\* Program paths given to launch: one that execs, one that does not exist,
\* one holding an interior NUL byte (CString::new refuses it).
Paths == {"good", "missing", "nul"}
DebugModes == {"YES", "NO"}

----------------------------------------------------------------------------
(* Values *)

NoEv == [k |-> "none", sig |-> "none", code |-> 0]
EvStopped(s) == [k |-> "Stopped", sig |-> s, code |-> 0]
EvExited(n) == [k |-> "Exited", sig |-> "none", code |-> n]
EvSignaled(s) == [k |-> "Signaled", sig |-> s, code |-> 0]

AbsentProc ==
    [st |-> "absent", img |-> "none", cpc |-> "none", path |-> "-",
     traced |-> FALSE, child |-> FALSE, ev |-> NoEv, pend |-> FALSE]

ExternalProc ==
    [st |-> "running", img |-> "target", cpc |-> "done", path |-> "-",
     traced |-> FALSE, child |-> FALSE, ev |-> NoEv, pend |-> FALSE]

FreeCtl ==
    [status |-> "free", pid |-> 0, state |-> "Stopped",
     terminate_on_end |-> "NO", is_attached |-> "NO"]

\* Process::new
ProcessNew(pid, terminate_on_end, is_attached) ==
    [status |-> "building", pid |-> pid, state |-> "Stopped",
     terminate_on_end |-> terminate_on_end, is_attached |-> is_attached]

\* impl From<DebugProcess> for IsAttached
IsAttachedFrom(debug) == IF debug = "YES" THEN "YES" ELSE "NO"

StopCauseSignal(s) == [tag |-> "Signal", signal |-> s, code |-> 0]
StopCauseCode(n) == [tag |-> "Code", signal |-> "none", code |-> n]
NoReason == [process_state |-> "none", stop_cause |-> StopCauseCode(0)]

\* StopReason::new with the arms for a normal exit and a kill exchanged
StopReasonNewSwapped(ws) ==
    CASE ws.k = "Exited" ->
           [process_state |-> "Terminated", stop_cause |-> StopCauseCode(ws.code)]
      [] ws.k = "Signaled" ->
           [process_state |-> "Exited", stop_cause |-> StopCauseSignal(ws.sig)]
      [] ws.k = "Stopped" ->
           [process_state |-> "Stopped", stop_cause |-> StopCauseSignal(ws.sig)]

\* StopReason::new
StopReasonNew(ws) ==
    CASE ws.k = "Exited" ->
           [process_state |-> "Exited", stop_cause |-> StopCauseCode(ws.code)]
      [] ws.k = "Signaled" ->
           [process_state |-> "Terminated", stop_cause |-> StopCauseSignal(ws.sig)]
      [] ws.k = "Stopped" ->
           [process_state |-> "Stopped", stop_cause |-> StopCauseSignal(ws.sig)]

Ok == <<"ok">>
Err(e) == <<e>>
IsOk(r) == r = Ok
\* bail!("child failed to launch: {msg}")
LaunchError(msg) == <<"child failed to launch", msg>>
Panic == <<"panic">>

TerminalStates == {"Exited", "Terminated", "FailedToLaunch"}

----------------------------------------------------------------------------
(* The kernel: what each system call returns and does *)

Exists(P, pid) == pid \in Pids /\ P[pid].st \notin {"absent", "gone"}
Alive(P, pid) == pid \in Pids /\ P[pid].st \in {"running", "stopped"}

\* waitpid(pid, None): the debugger may wait for its children and its tracees;
\* the status of any other process is invisible to it
Waitable(P, pid) == Exists(P, pid) /\ (P[pid].child \/ P[pid].traced)

\* ptrace(PTRACE_ATTACH, pid)
PtraceAttachResult(P, pid) ==
    IF ~Exists(P, pid) THEN Err("ESRCH")
    ELSE IF P[pid].st = "zombie" \/ P[pid].traced THEN Err("EPERM")
    ELSE Ok

PtraceAttachEffect(P, pid) ==
    [P EXCEPT ![pid].traced = TRUE, ![pid].st = "stopped",
              ![pid].ev = EvStopped("SIGSTOP")]

\* ptrace(PTRACE_CONT, pid, 0): the tracee must be in a ptrace-stop
PtraceContResult(P, pid) ==
    IF pid \in Pids /\ P[pid].traced /\ P[pid].st = "stopped"
    THEN Ok ELSE Err("ESRCH")

PtraceContEffect(P, pid) ==
    IF P[pid].pend
    THEN [P EXCEPT ![pid].pend = FALSE, ![pid].ev = EvStopped("SIGSTOP")]
    ELSE [P EXCEPT ![pid].st = "running", ![pid].ev = NoEv]

\* ptrace(PTRACE_DETACH, pid, 0)
PtraceDetachResult(P, pid) ==
    IF pid \in Pids /\ P[pid].traced /\ P[pid].st = "stopped"
    THEN Ok ELSE Err("ESRCH")

PtraceDetachEffect(P, pid) ==
    [P EXCEPT ![pid].traced = FALSE, ![pid].ev = NoEv, ![pid].pend = FALSE,
              ![pid].st = IF P[pid].pend THEN "stopped" ELSE "running"]

\* kill(pid, sig)
KillResult(P, pid) == IF Exists(P, pid) THEN Ok ELSE Err("ESRCH")

KillEffect(P, pid, sig) ==
    CASE sig = "SIGSTOP" /\ P[pid].st = "running" /\ P[pid].traced ->
           [P EXCEPT ![pid].st = "stopped", ![pid].ev = EvStopped("SIGSTOP")]
      [] sig = "SIGSTOP" /\ P[pid].st = "running" /\ ~P[pid].traced ->
           [P EXCEPT ![pid].st = "stopped"]
      [] sig = "SIGSTOP" /\ P[pid].st = "stopped" /\ P[pid].traced ->
           [P EXCEPT ![pid].pend = TRUE]
      [] sig = "SIGCONT" /\ P[pid].st = "stopped" /\ ~P[pid].traced ->
           [P EXCEPT ![pid].st = "running", ![pid].pend = FALSE]
      [] sig = "SIGKILL" /\ Alive(P, pid) ->
           [P EXCEPT ![pid].st = "zombie", ![pid].pend = FALSE,
                     ![pid].ev = IF P[pid].child \/ P[pid].traced
                                 THEN EvSignaled("SIGKILL") ELSE NoEv]
      [] OTHER -> P


\* waitpid can return: with an error, or with a pending status
WaitReady(P, pid) == ~Waitable(P, pid) \/ P[pid].ev # NoEv

WaitResult(P, pid) == IF Waitable(P, pid) THEN Ok ELSE Err("ECHILD")

WaitStatus(P, pid) == P[pid].ev

\* a stop is reported once; an exit or a kill is reported and the process reaped
WaitEffect(P, pid) ==
    IF P[pid].ev.k = "Stopped"
    THEN [P EXCEPT ![pid].ev = NoEv]
    ELSE [P EXCEPT ![pid].ev = NoEv, ![pid].traced = FALSE,
                   ![pid].st = IF P[pid].child THEN "gone" ELSE "zombie"]

----------------------------------------------------------------------------
(* The pieces of process.rs the operations are made of *)

Call(name, pid, sig, res, fn, state) ==
    [call |-> name, pid |-> pid, sig |-> sig, res |-> res, fn |-> fn,
     state |-> state]

\* launch, line 132: a non-empty read means the child failed
LaunchFailedNever(msg) == FALSE
LaunchFailed(msg) == msg # ""

\* attach, line 163: the `?` returns the error of the attach request
AttachProceedsAlways(r) == TRUE
AttachProceeds(r) == IsOk(r)

\* resume, lines 171-172: the state becomes Running only past the `?`
ResumeStateAlways(r, state) == "Running"
ResumeStateNever(r, state) == state
ResumeState(r, state) == IF IsOk(r) THEN "Running" ELSE state

\* wait_on_signal, lines 179-181
WaitOnSignalStateReset(r, ws, state) ==
    IF IsOk(r) THEN StopReasonNew(ws).process_state ELSE "Stopped"
WaitOnSignalState(r, ws, state) ==
    IF IsOk(r) THEN StopReasonNew(ws).process_state ELSE state

\* drop, lines 191-200: nothing to do
DropIsNoopOnlyPid(c) == c.pid = 0
DropIsNoop(c) ==
    \/ c.pid = 0
    \/ c.state = "Exited" \/ c.state = "Terminated" \/ c.state = "FailedToLaunch"

----------------------------------------------------------------------------
(* State of the debugger's thread *)

HasFreeCtl == \E c \in CtlIds : ctl[c].status = "free"
FreeCtlId == CHOOSE c \in CtlIds :
    ctl[c].status = "free" /\ \A d \in CtlIds : ctl[d].status = "free" => c <= d

HasFreshPid == \E p \in Pids : procs[p].st = "absent"
FreshPid == CHOOSE p \in Pids :
    procs[p].st = "absent" /\ \A q \in Pids : procs[q].st = "absent" => p <= q

\* the kernel's state of process `pid` ("none" for no valid identifier), and
\* whether the debugger traces it
ProcState(P, pid) == IF pid \in Pids THEN P[pid].st ELSE "none"
ProcTraced(P, pid) == pid \in Pids /\ P[pid].traced

\* The record of an operation that starts now: the operation, the Process value `c`
\* it works on and that value's fields at this moment (`proc`), the process
\* identifier it is about and that process's kernel state at this moment (`pst`,
\* `ptraced`),
\* launch's arguments, the wait status and StopReason of a wait_on_signal, and whether the operation before it was a successful
\* resume of the same Process value (`follows`).
Begin(op, c, proc, pid, path, debug) ==
    [op |-> op, c |-> c, proc |-> proc, pid |-> pid, pst |-> ProcState(procs, pid),
     ptraced |-> ProcTraced(procs, pid),
     path |-> path, debug |-> debug, res |-> Ok, reason |-> NoReason,
     ws |-> NoEv,
     follows |-> (c # NoCtl /\ last.op = "resume" /\ last.c = c /\ IsOk(last.res))]

NoChan == [path |-> "-", debug |-> "NO", pw |-> FALSE, cw |-> FALSE, buf |-> ""]

\* no session: the Process operations are called directly, as the tests do
NoLine == <<"-">>
NoSession ==
    [at |-> "off", c |-> NoCtl, hist |-> NoLine, line |-> NoLine, cmd |-> NoLine,
     state0 |-> "none", resumed |-> FALSE, waited |-> FALSE, werr |-> FALSE,
     out |-> <<>>]

\* no register access in progress
NoRegisters == [at |-> "off"]

ProcessInit ==
    /\ \E ext \in SUBSET ExtPids :
          procs = [p \in Pids |-> IF p \in ext THEN ExternalProc ELSE AbsentProc]
    /\ ctl = [c \in CtlIds |-> FreeCtl]
    /\ pc = "idle"
    /\ cur = NoCtl
    /\ chan = NoChan
    /\ calls = <<>>
    /\ last = [op |-> "none", c |-> NoCtl, proc |-> FreeCtl, pid |-> 0,
               pst |-> "none", ptraced |-> FALSE, path |-> "-", debug |-> "-", res |-> Ok,
               reason |-> NoReason, ws |-> NoEv, follows |-> FALSE]

Init ==
    /\ ProcessInit
    /\ sh = NoSession
    /\ rg = NoRegisters

\* the operation returns to its caller
Return(r) ==
    /\ pc' = "idle"
    /\ last' = [last EXCEPT !.res = r]

\* an `expect` in drop fails: the debugger aborts
Abort ==
    /\ pc' = "aborted"
    /\ last' = [last EXCEPT !.res = Panic]

----------------------------------------------------------------------------
(* Process::launch, lines 122-159 *)

\* lines 124-127: pipe, fork, and in the parent Process::new
Launch(path, debug) ==
    /\ pc = "idle"
    /\ HasFreeCtl /\ HasFreshPid
    /\ LET c == FreeCtlId
           p == FreshPid
       IN /\ procs' = [procs EXCEPT ![p] =
                 [st |-> "running", img |-> "copy",
                  cpc |-> IF debug = "YES" THEN "traceme" ELSE "exec",
                  path |-> path, traced |-> FALSE, child |-> TRUE,
                  ev |-> NoEv, pend |-> FALSE]]
          /\ ctl' = [ctl EXCEPT ![c] = ProcessNew(p, "YES", IsAttachedFrom(debug))]
          /\ cur' = c
          /\ last' = Begin("launch", c, ProcessNew(p, "YES", IsAttachedFrom(debug)),
                            p, path, debug)
    /\ chan' = [path |-> path, debug |-> debug, pw |-> TRUE, cw |-> TRUE, buf |-> ""]
    /\ calls' = <<>>
    /\ pc' = "launch_close"

\* line 129 left out: the parent keeps its copy of the write side
LaunchKeepWriter ==
    /\ pc = "launch_close"
    /\ pc' = "launch_read"
    /\ UNCHANGED <<procs, ctl, cur, chan, calls, last>>

\* line 129: the parent closes its copy of the write side
LaunchCloseWriter ==
    /\ pc = "launch_close"
    /\ chan' = [chan EXCEPT !.pw = FALSE]
    /\ pc' = "launch_read"
    /\ UNCHANGED <<procs, ctl, cur, calls, last>>

\* lines 131-137 and 140: read to end of file, which needs every write side
\* closed; read_from_pipe consumes the reader, so the pipe is gone afterwards
LaunchRead ==
    /\ pc = "launch_read"
    /\ ~chan.pw /\ ~chan.cw
    /\ LET msg == chan.buf
           debug_process == chan.debug
       IN IF LaunchFailed(msg)
          THEN /\ ctl' = [ctl EXCEPT ![cur].state = "FailedToLaunch"]
               /\ last' = [last EXCEPT !.res = LaunchError(msg)]
               /\ pc' = "drop"
          ELSE IF debug_process = "YES"
          THEN /\ pc' = "launch_wait"
               /\ UNCHANGED <<ctl, last>>
          ELSE /\ ctl' = [ctl EXCEPT ![cur].status = "live"]
               /\ Return(Ok)
    /\ chan' = NoChan
    /\ UNCHANGED <<procs, cur, calls>>

\* wait_on_signal as called at `fn`, lines 178-183; blocks until waitpid can return
WaitOnSignal(fn) ==
    LET c == ctl[cur]
        r == WaitResult(procs, c.pid)
        ws == WaitStatus(procs, c.pid)
    IN /\ WaitReady(procs, c.pid)
       /\ calls' = Append(calls, Call("waitpid", c.pid, "none", r, fn, c.state))
       /\ procs' = IF IsOk(r) THEN WaitEffect(procs, c.pid) ELSE procs

\* lines 138-140: the initial wait of a traced launch
LaunchWait ==
    /\ pc = "launch_wait"
    /\ WaitOnSignal("launch")
    /\ LET c == ctl[cur]
           r == WaitResult(procs, c.pid)
           ws == WaitStatus(procs, c.pid)
       IN IF IsOk(r)
          THEN /\ ctl' = [ctl EXCEPT ![cur].state = WaitOnSignalState(r, ws, c.state),
                                     ![cur].status = "live"]
               /\ Return(Ok)
          ELSE /\ last' = [last EXCEPT !.res = r]
               /\ pc' = "drop"
               /\ UNCHANGED ctl
    /\ UNCHANGED <<cur, chan>>

\* the child, lines 146-148: ptrace::traceme
ChildTraceme(p) ==
    /\ pc # "aborted"
    /\ procs[p].cpc = "traceme"
    /\ procs' = [procs EXCEPT ![p].traced = TRUE, ![p].cpc = "exec"]
    /\ UNCHANGED <<ctl, pc, cur, chan, calls, last>>

\* the child, line 150: CString::new(path)? fails on an interior NUL; the child
\* returns the error to launch's caller, dropping the write side unwritten
ChildCStringFail(p) ==
    /\ pc # "aborted"
    /\ procs[p].cpc = "exec" /\ procs[p].path = "nul"
    /\ procs' = [procs EXCEPT ![p].img = "caller", ![p].cpc = "done", ![p].path = "-"]
    /\ chan' = [chan EXCEPT !.cw = FALSE]
    /\ UNCHANGED <<ctl, pc, cur, calls, last>>

\* the child, line 151: execvp succeeds; the write side is close-on-exec, and a
\* process that asked to be traced stops with SIGTRAP
ChildExecOk(p) ==
    /\ pc # "aborted"
    /\ procs[p].cpc = "exec" /\ procs[p].path = "good"
    /\ procs' = [procs EXCEPT ![p].img = "target", ![p].cpc = "done", ![p].path = "-",
                    ![p].st = IF procs[p].traced THEN "stopped" ELSE "running",
                    ![p].ev = IF procs[p].traced THEN EvStopped("SIGTRAP") ELSE NoEv]
    /\ chan' = [chan EXCEPT !.cw = FALSE]
    /\ UNCHANGED <<ctl, pc, cur, calls, last>>

\* the child, lines 151-156: execvp fails; the child writes the error and
\* returns Err("failed to launch") to launch's caller
ChildExecFail(p) ==
    /\ pc # "aborted"
    /\ procs[p].cpc = "exec" /\ procs[p].path = "missing"
    /\ procs' = [procs EXCEPT ![p].img = "caller", ![p].cpc = "done", ![p].path = "-"]
    /\ chan' = [chan EXCEPT !.buf = "ENOENT", !.cw = FALSE]
    /\ UNCHANGED <<ctl, pc, cur, calls, last>>

----------------------------------------------------------------------------
(* Process::attach, lines 161-167 *)

\* lines 163-164
Attach(pid) ==
    /\ pc = "idle"
    /\ LET r == PtraceAttachResult(procs, pid)
       IN /\ calls' = <<Call("attach", pid, "none", r, "attach", "none")>>
          /\ IF AttachProceeds(r)
             THEN /\ HasFreeCtl
                  /\ ctl' = [ctl EXCEPT ![FreeCtlId] = ProcessNew(pid, "NO", "YES")]
                  /\ cur' = FreeCtlId
                  /\ last' = Begin("attach", FreeCtlId, ProcessNew(pid, "NO", "YES"),
                                    pid, "-", "-")
                  /\ pc' = "attach_wait"
             ELSE /\ last' = [Begin("attach", NoCtl, FreeCtl, pid, "-", "-")
                                 EXCEPT !.res = r]
                  /\ pc' = "idle"
                  /\ cur' = NoCtl
                  /\ UNCHANGED ctl
          /\ procs' = IF IsOk(r) THEN PtraceAttachEffect(procs, pid) ELSE procs
    /\ UNCHANGED chan

\* lines 165-166
AttachWait ==
    /\ pc = "attach_wait"
    /\ WaitOnSignal("attach")
    /\ LET c == ctl[cur]
           r == WaitResult(procs, c.pid)
           ws == WaitStatus(procs, c.pid)
       IN IF IsOk(r)
          THEN /\ ctl' = [ctl EXCEPT ![cur].state = WaitOnSignalState(r, ws, c.state),
                                     ![cur].status = "live"]
               /\ Return(Ok)
          ELSE /\ last' = [last EXCEPT !.res = r]
               /\ pc' = "drop"
               /\ UNCHANGED ctl
    /\ UNCHANGED <<cur, chan>>

----------------------------------------------------------------------------
(* Process::resume, lines 170-174, and Process::wait_on_signal, lines 178-183 *)

Resume(c) ==
    /\ pc = "idle"
    /\ ctl[c].status = "live"
    /\ LET pid == ctl[c].pid
           r == PtraceContResult(procs, pid)
       IN /\ calls' = <<Call("cont", pid, "none", r, "resume", ctl[c].state)>>
          /\ procs' = IF IsOk(r) THEN PtraceContEffect(procs, pid) ELSE procs
          /\ ctl' = [ctl EXCEPT ![c].state = ResumeState(r, ctl[c].state)]
          /\ last' = [Begin("resume", c, ctl[c], pid, "-", "-") EXCEPT !.res = r]
    /\ cur' = c
    /\ UNCHANGED <<pc, chan>>

\* the caller enters wait_on_signal
WaitCall(c) ==
    /\ pc = "idle"
    /\ ctl[c].status = "live"
    /\ pc' = "wait"
    /\ cur' = c
    /\ calls' = <<>>
    /\ last' = Begin("wait", c, ctl[c], ctl[c].pid, "-", "-")
    /\ UNCHANGED <<procs, ctl, chan>>

\* waitpid returns
WaitReturn ==
    /\ pc = "wait"
    /\ WaitOnSignal("wait_on_signal")
    /\ LET c == ctl[cur]
           r == WaitResult(procs, c.pid)
           ws == WaitStatus(procs, c.pid)
       IN /\ ctl' = [ctl EXCEPT ![cur].state = WaitOnSignalState(r, ws, c.state)]
          /\ pc' = "idle"
          /\ last' = [last EXCEPT !.res = r,
                        !.ws = IF IsOk(r) THEN ws ELSE NoEv,
                        !.reason = IF IsOk(r) THEN StopReasonNew(ws) ELSE NoReason]
    /\ UNCHANGED <<cur, chan>>

----------------------------------------------------------------------------
(* impl Drop for Process, lines 190-219 *)

\* the drop is over: the Process value is gone and the operation that dropped
\* it (drop itself, or a failed launch or attach) returns
DropDone ==
    /\ ctl' = [ctl EXCEPT ![cur] = FreeCtl]
    /\ pc' = "idle"
    /\ UNCHANGED last

\* lines 215-219 without the test of terminate_on_end
DropAfterDetachAlwaysKills == pc' = "drop_kill" /\ UNCHANGED <<ctl, last>>

\* lines 215-219, reached after the is_attached block
DropAfterDetach ==
    IF ctl[cur].terminate_on_end = "YES"
    THEN pc' = "drop_kill" /\ UNCHANGED <<ctl, last>>
    ELSE DropDone

\* a Process value the caller holds goes out of scope
Drop(c) ==
    /\ pc = "idle"
    /\ ctl[c].status = "live"
    /\ pc' = "drop"
    /\ cur' = c
    /\ calls' = <<>>
    /\ last' = Begin("drop", c, ctl[c], ctl[c].pid, "-", "-")
    /\ UNCHANGED <<procs, ctl, chan>>

\* lines 191-205: the early returns, and SIGSTOP to a running tracee
DropBegin ==
    /\ pc = "drop"
    /\ LET c == ctl[cur]
           r == KillResult(procs, c.pid)
       IN IF DropIsNoop(c)
          THEN DropDone /\ UNCHANGED <<procs, calls>>
          ELSE IF c.is_attached = "YES"
          THEN IF c.state = "Running"
               THEN /\ calls' = Append(calls,
                          Call("kill", c.pid, "SIGSTOP", r, "drop", c.state))
                    /\ procs' = IF IsOk(r) THEN KillEffect(procs, c.pid, "SIGSTOP")
                                ELSE procs
                    /\ IF IsOk(r) THEN pc' = "drop_wait_stop" /\ UNCHANGED last
                       ELSE Abort
                    /\ UNCHANGED ctl
               ELSE /\ pc' = "drop_detach"
                    /\ UNCHANGED <<procs, ctl, calls, last>>
          ELSE DropAfterDetach /\ UNCHANGED <<procs, calls>>
    /\ UNCHANGED <<cur, chan>>

\* lines 206-207: wait for the stop
DropWaitStop ==
    /\ pc = "drop_wait_stop"
    /\ WaitOnSignal("drop")
    /\ LET c == ctl[cur]
           r == WaitResult(procs, c.pid)
           ws == WaitStatus(procs, c.pid)
       IN /\ ctl' = [ctl EXCEPT ![cur].state = WaitOnSignalState(r, ws, c.state)]
          /\ IF IsOk(r) THEN pc' = "drop_detach" /\ UNCHANGED last
             ELSE Abort
    /\ UNCHANGED <<cur, chan>>

\* line 211
DropDetach ==
    /\ pc = "drop_detach"
    /\ LET c == ctl[cur]
           r == PtraceDetachResult(procs, c.pid)
       IN /\ calls' = Append(calls, Call("detach", c.pid, "none", r, "drop", c.state))
          /\ procs' = IF IsOk(r) THEN PtraceDetachEffect(procs, c.pid) ELSE procs
          /\ IF IsOk(r) THEN pc' = "drop_cont" /\ UNCHANGED last
             ELSE Abort
    /\ UNCHANGED <<ctl, cur, chan>>

\* line 212
DropCont ==
    /\ pc = "drop_cont"
    /\ LET c == ctl[cur]
           r == KillResult(procs, c.pid)
       IN /\ calls' = Append(calls, Call("kill", c.pid, "SIGCONT", r, "drop", c.state))
          /\ procs' = IF IsOk(r) THEN KillEffect(procs, c.pid, "SIGCONT") ELSE procs
          /\ IF IsOk(r) THEN DropAfterDetach ELSE Abort /\ UNCHANGED ctl
    /\ UNCHANGED <<cur, chan>>

\* line 216
DropKill ==
    /\ pc = "drop_kill"
    /\ LET c == ctl[cur]
           r == KillResult(procs, c.pid)
       IN /\ calls' = Append(calls, Call("kill", c.pid, "SIGKILL", r, "drop", c.state))
          /\ procs' = IF IsOk(r) THEN KillEffect(procs, c.pid, "SIGKILL") ELSE procs
          /\ IF IsOk(r) THEN pc' = "drop_reap" /\ UNCHANGED last
             ELSE Abort
    /\ UNCHANGED <<ctl, cur, chan>>

\* line 217: waitpid, whose status is discarded
DropReap ==
    /\ pc = "drop_reap"
    /\ WaitOnSignal("drop")
    /\ IF IsOk(WaitResult(procs, ctl[cur].pid)) THEN DropDone
       ELSE Abort /\ UNCHANGED ctl
    /\ UNCHANGED <<cur, chan>>

----------------------------------------------------------------------------
(* What a process does on its own *)

Runs(p) ==
    /\ pc # "aborted"
    /\ procs[p].st = "running" /\ procs[p].cpc = "done"

\* exit code: the target program ends with 0; a child that returned into the
\* caller's code ends the way main does on an error, with 1
ExitCode(img) == IF img = "caller" THEN 1 ELSE 0

\* a traced process stops when a signal is delivered to it (a trap included)
ProcTrap(p) ==
    /\ Runs(p) /\ procs[p].traced
    /\ procs' = [procs EXCEPT ![p].st = "stopped", ![p].ev = EvStopped("SIGTRAP")]
    /\ UNCHANGED <<ctl, pc, cur, chan, calls, last>>

ProcExit(p) ==
    /\ Runs(p)
    /\ procs' = [procs EXCEPT ![p].st = "zombie",
                    ![p].ev = IF Waitable(procs, p)
                              THEN EvExited(ExitCode(procs[p].img)) ELSE NoEv]
    /\ UNCHANGED <<ctl, pc, cur, chan, calls, last>>

\* SIGKILL, which a tracer never sees as a stop
ProcKilled(p) ==
    /\ Runs(p)
    /\ procs' = [procs EXCEPT ![p].st = "zombie",
                    ![p].ev = IF Waitable(procs, p)
                              THEN EvSignaled("SIGKILL") ELSE NoEv]
    /\ UNCHANGED <<ctl, pc, cur, chan, calls, last>>

\* a process that is not the debugger's child is reaped by its own parent
ProcReapedByParent(p) ==
    /\ pc # "aborted"
    /\ procs[p].st = "zombie" /\ ~procs[p].child /\ ~procs[p].traced
    /\ procs' = [procs EXCEPT ![p].st = "gone", ![p].ev = NoEv]
    /\ UNCHANGED <<ctl, pc, cur, chan, calls, last>>

----------------------------------------------------------------------------

\* a step of impl Drop, whichever the drop is at
DropStep ==
    /\ pc \in {"drop", "drop_wait_stop", "drop_detach", "drop_cont", "drop_kill",
               "drop_reap"}
    /\ \/ DropBegin
       \/ DropWaitStop
       \/ DropDetach
       \/ DropCont
       \/ DropKill
       \/ DropReap

\* a step of the process library leaves the session and the registers alone
Library == UNCHANGED <<sh, rg>>

Next ==
    \/ \E path \in Paths, debug \in DebugModes : Launch(path, debug) /\ Library
    \/ LaunchCloseWriter /\ Library
    \/ LaunchRead /\ Library
    \/ LaunchWait /\ Library
    \/ \E p \in Pids : ChildTraceme(p) /\ Library
    \/ \E p \in Pids : ChildCStringFail(p) /\ Library
    \/ \E p \in Pids : ChildExecOk(p) /\ Library
    \/ \E p \in Pids : ChildExecFail(p) /\ Library
    \/ \E pid \in 0..MaxPid : Attach(pid) /\ Library
    \/ AttachWait /\ Library
    \/ \E c \in CtlIds : Resume(c) /\ Library
    \/ \E c \in CtlIds : WaitCall(c) /\ Library
    \/ WaitReturn /\ Library
    \/ \E c \in CtlIds : Drop(c) /\ Library
    \/ DropBegin /\ Library
    \/ DropWaitStop /\ Library
    \/ DropDetach /\ Library
    \/ DropCont /\ Library
    \/ DropKill /\ Library
    \/ DropReap /\ Library
    \/ \E p \in Pids : ProcTrap(p) /\ Library
    \/ \E p \in Pids : ProcExit(p) /\ Library
    \/ \E p \in Pids : ProcKilled(p) /\ Library
    \/ \E p \in Pids : ProcReapedByParent(p) /\ Library

Spec == Init /\ [][Next]_vars

\* a step of launch in the parent up to the end of read_from_pipe
LaunchStep == (LaunchCloseWriter \/ LaunchRead) /\ Library

\* a step of a forked child up to its exec or its giving up
ChildStep ==
    \E p \in Pids :
        (ChildTraceme(p) \/ ChildCStringFail(p) \/ ChildExecOk(p) \/ ChildExecFail(p))
            /\ Library

\* A debugger that launches programs and drops the Process values it got:
\* launch with the steps of its child, and the processes running on.
LaunchNext ==
    \/ \E path \in Paths, debug \in DebugModes : Launch(path, debug) /\ Library
    \/ LaunchCloseWriter /\ Library
    \/ LaunchRead /\ Library
    \/ LaunchWait /\ Library
    \/ ChildStep
    \/ \E c \in CtlIds : Drop(c) /\ Library
    \/ DropStep /\ Library
    \/ \E p \in Pids : ProcExit(p) /\ Library
    \/ \E p \in Pids : ProcKilled(p) /\ Library
    \/ \E p \in Pids : ProcReapedByParent(p) /\ Library

\* Scheduling: the debugger's thread goes on with launch whenever it can (it is
\* blocked only in read), and the forked child, a runnable process, is
\* scheduled until it has exec'ed or given up.
LaunchSpec ==
    /\ Init /\ [][LaunchNext]_vars
    /\ WF_vars(LaunchStep)
    /\ WF_vars(ChildStep)

----------------------------------------------------------------------------
(* main.rs: main, attach, the command loop and the rendering it prints *)

\* A printed text is the sequence of its words.

\* impl Display for StopCause, process.rs 27-34
DisplayStopCause(stop_cause) ==
    IF stop_cause.tag = "Signal"
    THEN <<"signal", stop_cause.signal>>
    ELSE <<"exit", "code", ToString(stop_cause.code)>>

\* impl Display for StopReason, process.rs 61-70
DisplayStopReason(reason) ==
    CASE reason.process_state = "Stopped" ->
           <<"stopped", "with", "cause">> \o DisplayStopCause(reason.stop_cause)
      [] reason.process_state = "Exited" ->
           <<"terminated", "with", "signal">> \o DisplayStopCause(reason.stop_cause)
      [] reason.process_state = "Terminated" ->
           <<"stopped", "with", "signal">> \o DisplayStopCause(reason.stop_cause)

\* A line is the sequence of its characters.
Continue == <<"c", "o", "n", "t", "i", "n", "u", "e">>
Whitespace == {" ", "\t"}

\* the lines typed at the prompt: empty, prefixes of "continue", an unknown
\* word, blanks only, a prefix of "continue" followed by another word, and
\* "continue" with a letter more
Lines ==
    { <<>>,
      <<"c">>,
      Continue,
      <<"x">>,
      <<" ">>,
      <<"c", " ", "x">>,
      Continue \o <<"d">> }

\* the last line of the history file loaded by repl, line 48: none, or a line
\* an earlier session added
SavedLines == {NoLine, <<"c">>, <<"x">>}

\* what readline returns besides a line, lines 64-75
ReadErrors == {<<"Interrupted">>, <<"Eof">>, <<"Io">>}

\* decimal digits, and the text of a number
Digits == <<"0", "1", "2", "3", "4", "5", "6", "7", "8", "9">>
DigitValue(ch) == CHOOSE d \in 0..9 : Digits[d + 1] = ch

RECURSIVE NumberText(_)
NumberText(n) ==
    IF n < 10 THEN <<Digits[n + 1]>>
    ELSE Append(NumberText(n \div 10), Digits[(n % 10) + 1])

\* the arguments after the program's name: `-p <pid>` with a number or with
\* something else, or a program path
Args ==
    {<<"-p", NumberText(pid)>> : pid \in 0..MaxPid} \cup {<<"-p", <<"a">>>>}
        \cup {<<path>> : path \in Paths}

\* str::parse::<i32> of an unsigned text: the number, or -1 for a ParseIntError
RECURSIVE ParseDigits(_, _, _)
ParseDigits(text, i, acc) ==
    IF i > Len(text) THEN acc
    ELSE IF \E d \in 0..9 : Digits[d + 1] = text[i]
    THEN ParseDigits(text, i + 1, acc * 10 + DigitValue(text[i]))
    ELSE -1

Parse(text) == IF text = <<>> THEN -1 ELSE ParseDigits(text, 1, 0)

\* str::split_ascii_whitespace, collected: the maximal runs of non-blanks
RECURSIVE SplitFrom(_, _, _)
SplitFrom(line, i, word) ==
    IF i > Len(line)
    THEN IF word = <<>> THEN <<>> ELSE <<word>>
    ELSE IF line[i] \in Whitespace
    THEN IF word = <<>> THEN SplitFrom(line, i + 1, <<>>)
         ELSE <<word>> \o SplitFrom(line, i + 1, <<>>)
    ELSE SplitFrom(line, i + 1, Append(word, line[i]))

SplitAsciiWhitespace(line) == SplitFrom(line, 1, <<>>)

\* str::starts_with
StartsWith(text, prefix) ==
    Len(prefix) <= Len(text) /\ SubSeq(text, 1, Len(prefix)) = prefix

\* handle_command, line 29
IsContinue(command) == StartsWith(Continue, command)

\* main, line 93, entered with arguments `args`; attach, lines 12-23
MainAttach(args) ==
    /\ sh.at = "main"
    /\ pc = "idle"
    /\ IF Len(args) = 2 /\ args[1] = "-p"
       THEN IF Parse(args[2]) >= 0
            THEN /\ Attach(Parse(args[2]))
                 /\ sh' = [sh EXCEPT !.at = "creating"]
            ELSE /\ sh' = [sh EXCEPT !.at = "ended", !.out = <<"ParseIntError">>]
                 /\ UNCHANGED <<procs, ctl, pc, cur, chan, calls, last>>
       ELSE /\ Launch(args[1], "YES")
            /\ sh' = [sh EXCEPT !.at = "creating"]
    /\ UNCHANGED rg

\* attach's `?` (lines 16, 20) and main's (line 93): on an error main returns
\* it, else repl starts
MainCreated ==
    /\ sh.at = "creating"
    /\ pc = "idle"
    /\ sh' = IF IsOk(last.res)
             THEN [sh EXCEPT !.at = "prompt", !.c = last.c]
             ELSE [sh EXCEPT !.at = "ended", !.out = <<last.res[1]>>]
    /\ UNCHANGED <<procs, ctl, pc, cur, chan, calls, last, rg>>

\* repl, lines 51-76: a line is read.  An empty line runs the last history
\* entry again, any other line is added to the history and handled, a
\* readline error leaves the loop
ReplReadline(input) ==
    /\ sh.at = "prompt"
    /\ LET read == [sh EXCEPT !.line = input, !.cmd = NoLine,
                              !.state0 = ctl[sh.c].state,
                              !.resumed = FALSE, !.waited = FALSE, !.out = <<>>]
       IN sh' = IF input \in ReadErrors
                THEN [read EXCEPT !.at = "leave"]
                ELSE IF input = <<>>
                THEN IF sh.hist # NoLine
                     THEN [read EXCEPT !.at = "handle", !.cmd = sh.hist]
                     ELSE read
                ELSE [read EXCEPT !.at = "handle", !.cmd = input, !.hist = input]
    /\ UNCHANGED <<procs, ctl, pc, cur, chan, calls, last, rg>>

\* handle_command, line 30, without the wait: back to the prompt after any resume
AfterResumeNoWait(r) == "prompt"

\* handle_command, lines 30-31: the `?` of resume returns its error to the loop,
\* and after a successful resume wait_on_signal is called
AfterResume(r) == IF IsOk(r) THEN "resumed" ELSE "prompt"

\* handle_command, lines 26-30: tokens[0] panics when the line has no token;
\* a prefix of "continue" resumes, and an error of resume is printed (39-41)
HandleCommand ==
    /\ sh.at = "handle"
    /\ LET tokens == SplitAsciiWhitespace(sh.cmd)
       IN IF tokens = <<>>
          THEN /\ sh' = [sh EXCEPT !.at = "panicked"]
               /\ UNCHANGED <<procs, ctl, pc, cur, chan, calls, last>>
          ELSE IF IsContinue(tokens[1])
          THEN /\ Resume(sh.c)
               /\ LET r == PtraceContResult(procs, ctl[sh.c].pid)
                  IN sh' = [sh EXCEPT !.at = AfterResume(r), !.resumed = TRUE,
                                      !.out = IF IsOk(r) THEN <<>> ELSE <<"ESRCH">>]
          ELSE /\ sh' = [sh EXCEPT !.at = "prompt"]
               /\ UNCHANGED <<procs, ctl, pc, cur, chan, calls, last>>
    /\ UNCHANGED rg

\* handle_command, line 31: wait_on_signal is entered
HandleWait ==
    /\ sh.at = "resumed"
    /\ WaitCall(sh.c)
    /\ sh' = [sh EXCEPT !.at = "waiting", !.waited = TRUE]
    /\ UNCHANGED rg

\* handle_command, lines 31-32, and lines 39-41: the stop is printed, or the error
HandleReport ==
    /\ sh.at = "waiting"
    /\ pc = "idle"
    /\ sh' = [sh EXCEPT !.at = "prompt",
                !.werr = ~IsOk(last.res),
                !.out = IF IsOk(last.res)
                        THEN <<"process", "id", ToString(ctl[sh.c].pid)>>
                                \o DisplayStopReason(last.reason)
                        ELSE <<last.res[1]>>]
    /\ UNCHANGED <<procs, ctl, pc, cur, chan, calls, last, rg>>

\* repl, lines 80-83, and main, lines 94-98: the loop is left and main's
\* Process value goes out of scope
ReplLeave ==
    /\ sh.at = "leave"
    /\ Drop(sh.c)
    /\ sh' = [sh EXCEPT !.at = "ended"]
    /\ UNCHANGED rg

\* the panic of line 27 unwinds through repl and main, dropping main's Process
\* value, in a build that unwinds
PanicUnwind ==
    /\ sh.at = "panicked"
    /\ Drop(sh.c)
    /\ sh' = [sh EXCEPT !.at = "unwound"]
    /\ UNCHANGED rg

\* the panic of line 27 in a build that aborts on a panic
PanicAbort ==
    /\ sh.at = "panicked"
    /\ pc' = "aborted"
    /\ sh' = [sh EXCEPT !.at = "killed"]
    /\ UNCHANGED <<procs, ctl, cur, chan, calls, last, rg>>

\* the session starts in main with the history file as an earlier session left it
ReplInit ==
    /\ ProcessInit
    /\ \E saved \in SavedLines : sh = [NoSession EXCEPT !.at = "main", !.hist = saved]
    /\ rg = NoRegisters

ReplNext ==
    \/ \E args \in Args : MainAttach(args)
    \/ MainCreated
    \/ \E input \in Lines \cup ReadErrors : ReplReadline(input)
    \/ HandleCommand
    \/ HandleWait
    \/ HandleReport
    \/ ReplLeave
    \/ PanicUnwind
    \/ PanicAbort
    \/ LaunchCloseWriter /\ Library
    \/ LaunchRead /\ Library
    \/ LaunchWait /\ Library
    \/ \E p \in Pids : ChildTraceme(p) /\ Library
    \/ \E p \in Pids : ChildCStringFail(p) /\ Library
    \/ \E p \in Pids : ChildExecOk(p) /\ Library
    \/ \E p \in Pids : ChildExecFail(p) /\ Library
    \/ AttachWait /\ Library
    \/ WaitReturn /\ Library
    \/ DropStep /\ Library
    \/ \E p \in Pids : ProcTrap(p) /\ Library
    \/ \E p \in Pids : ProcExit(p) /\ Library
    \/ \E p \in Pids : ProcKilled(p) /\ Library
    \/ \E p \in Pids : ProcReapedByParent(p) /\ Library

ReplSpec == ReplInit /\ [][ReplNext]_vars

----------------------------------------------------------------------------
(* registers.rs, registers/values.rs and reg_macros.rs: register descriptors, *)
(* values, and the read and write of a register                              *)

\* A value of 2, 4, 8 or 16 bytes is the sequence of its bytes in memory order
\* (little endian): a 64-bit word is its 8 bytes.

\* layout of libc's `user` (x86-64), as offset_of! and size_of give it
SizeOfUser == 912
OffsetOfRegs == 0
OffsetOfI387 == 224
OffsetOfStSpace == 32
OffsetOfXmmSpace == 160
OffsetOfDebugreg == 848
SizeOfUserRegs == 216

\* offset_of!(user_regs_struct, field)
OffsetOfField(field) ==
    CASE field = "r15" -> 0
      [] field = "rax" -> 80
      [] field = "cwd" -> 0

Offsets == 0..(SizeOfUser - 1)

RegisterInfo(id, size, offset, kind, format) ==
    [id |-> id, size |-> size, offset |-> offset, kind |-> kind, format |-> format]

\* reg_macros.rs
gpr64(id, field) ==
    RegisterInfo(id, 8, OffsetOfRegs + OffsetOfField(field), "GeneralPurpose", "Uint")
gpr32(id, field) ==
    RegisterInfo(id, 4, OffsetOfRegs + OffsetOfField(field), "SubGeneralPurpose", "Uint")
gpr16(id, field) ==
    RegisterInfo(id, 2, OffsetOfRegs + OffsetOfField(field), "SubGeneralPurpose", "Uint")
gpr8_hi(id, field) ==
    RegisterInfo(id, 1, OffsetOfRegs + OffsetOfField(field) + 1, "SubGeneralPurpose",
                 "Uint")
gpr8_lo(id, field) ==
    RegisterInfo(id, 1, OffsetOfRegs + OffsetOfField(field), "SubGeneralPurpose", "Uint")
fpr(id, field, size) ==
    RegisterInfo(id, size, OffsetOfI387 + OffsetOfField(field), "FloatingPoint", "Uint")
fp_st(id, seq) ==
    RegisterInfo(id, 16, OffsetOfI387 + OffsetOfStSpace + (seq * 16), "FloatingPoint",
                 "LongDouble")
fp_mm(id, seq) ==
    RegisterInfo(id, 8, OffsetOfI387 + OffsetOfStSpace + (seq * 16), "FloatingPoint",
                 "Vector")
xmm(id, seq) ==
    RegisterInfo(id, 16, OffsetOfI387 + OffsetOfXmmSpace + (seq * 16), "FloatingPoint",
                 "Vector")
debugreg(id, seq) ==
    RegisterInfo(id, 8, OffsetOfDebugreg + (seq * 8), "Debug", "Uint")

\* one descriptor of every macro
RegisterInfos ==
    { gpr64("rax", "rax"), gpr32("eax", "rax"), gpr16("ax", "rax"),
      gpr8_hi("ah", "rax"), gpr8_lo("al", "rax"),
      fpr("fcw", "cwd", 2), fp_st("st0", 0), fp_mm("mm0", 0), xmm("xmm0", 0),
      debugreg("dr0", 0) }

\* descriptors read besides those: unsigned ones whose size is not that of an
\* integer type, and a vector one of neither 8 nor 16 bytes
OddInfos ==
    { fpr("odd0", "cwd", 0), fpr("odd3", "cwd", 3), fpr("odd16", "cwd", 16),
      RegisterInfo("odd4", 4, OffsetOfI387 + OffsetOfXmmSpace, "FloatingPoint",
                   "Vector") }
ReadInfos == RegisterInfos \cup OddInfos

\* enum Value: the variant and the bytes of its payload
ValueTags ==
    {"U8", "U16", "U32", "U64", "I8", "I16", "I32", "I64", "F", "LD", "B64", "B128"}

\* size_of of the payload of a variant (LD holds an f64)
SizeOfValue(tag) ==
    CASE tag \in {"U8", "I8"} -> 1
      [] tag \in {"U16", "I16"} -> 2
      [] tag \in {"U32", "I32"} -> 4
      [] tag \in {"U64", "I64", "F", "LD", "B64"} -> 8
      [] tag = "B128" -> 16

Value(tag, bytes) == [tag |-> tag, bytes |-> bytes]

\* the payloads written: bytes that occur nowhere in the snapshot
Payload(n) == [j \in 1..n |-> 160 + j]
Values == {Value(tag, Payload(SizeOfValue(tag))) : tag \in ValueTags}

\* the register snapshot the debugger starts with
Snapshot == [i \in Offsets |-> (i % 100) + 1]

\* what a read through a dangling pointer can find besides the bytes left there
Garbage(n) == [j \in 1..n |-> 255]

\* the bytes of `data` at start..end-1
Slice(data, start, end) == [j \in 1..(end - start) |-> data[start + j - 1]]

\* copy_from_slice into data[start..]
CopyFromSlice(data, start, bytes) ==
    [i \in DOMAIN data |->
        IF i >= start /\ i < start + Len(bytes) THEN bytes[i - start + 1] ELSE data[i]]

\* Value::to_bytes, registers.rs 32-47
ToBytes(value) == value.bytes

\* <[u8; 8]>::try_from(slice), line 107
TryInto8(bytes) == IF Len(bytes) = 8 THEN Ok ELSE Err("TryFromSliceError")

\* the kernel's word-granular write (PTRACE_POKEUSER): the offset must be a
\* multiple of 8 inside the general registers or the debug registers
PokeUserResult(offset) ==
    IF /\ offset % 8 = 0
       /\ \/ offset < OffsetOfRegs + SizeOfUserRegs
          \/ offset >= OffsetOfDebugreg /\ offset + 8 <= SizeOfUser
    THEN Ok ELSE Err("EIO")

\* Process::write_user_area(offset, payload)
WriteUserArea(area, offset, payload) ==
    IF IsOk(PokeUserResult(offset)) THEN CopyFromSlice(area, offset, payload) ELSE area

\* Value::widen, values.rs 22-37: from_bytes::<Byte128>(bytes_of(v)) panics
\* unless the payload has the 16 bytes of a Byte128
Widen(value) == IF Len(value.bytes) = 16 THEN value.bytes ELSE Panic

\* Registers::read without the `size =>` arm of line 78 and the guard of line
\* 82: an unsigned size is rounded up to an integer type, a vector is 16 bytes
ReadAsUnchecked(info) ==
    CASE info.format = "Uint" /\ info.size <= 1 -> "U8"
      [] info.format = "Uint" /\ info.size = 2 -> "U16"
      [] info.format = "Uint" /\ info.size \in 3..4 -> "U32"
      [] info.format = "Uint" /\ info.size > 4 -> "U64"
      [] info.format = "DoubleFloat" -> "F"
      [] info.format = "LongDouble" -> "LD"
      [] info.format = "Vector" -> "B128"

\* Registers::read, lines 71-86: the variant read and the number of bytes
\* read_value::<T> takes
ReadAs(info) ==
    CASE info.format = "Uint" /\ info.size = 1 -> "U8"
      [] info.format = "Uint" /\ info.size = 2 -> "U16"
      [] info.format = "Uint" /\ info.size = 4 -> "U32"
      [] info.format = "Uint" /\ info.size = 8 -> "U64"
      [] info.format = "Uint" /\ info.size \notin {1, 2, 4, 8} -> "none"
      [] info.format = "DoubleFloat" -> "F"
      [] info.format = "LongDouble" -> "LD"
      [] info.format = "Vector" /\ info.size = 8 -> "B64"
      [] info.format = "Vector" /\ info.size # 8 -> "B128"

RegistersInit ==
    [at |-> "ready", data |-> Snapshot, area |-> Snapshot,
     info |-> gpr64("rax", "rax"), value |-> Value("U8", Payload(1)),
     res |-> Ok, sub |-> <<>>, got |-> <<>>, fresh |-> FALSE, intact |-> TRUE,
     winfo |-> gpr64("rax", "rax"), wvalue |-> Value("U8", Payload(1)), wres |-> Ok]

\* Registers::write, lines 93-110.  `raw` is a view of a temporary copy of the
\* snapshot that is gone when the statement of lines 94-99 ends: what is read
\* back through it at line 107 is either what line 105 stored (`intact`) or
\* whatever the memory holds by then.  rg.intact records which.
Write(register_info, value, intact) ==
    /\ rg.at = "ready"
    /\ LET value_bytes == ToBytes(value)
           start == register_info.offset
           end == start + Len(value_bytes)
           raw == Slice(CopyFromSlice(rg.data, start, value_bytes), start, end)
           payload == IF intact THEN raw ELSE Garbage(Len(raw))
           poke == PokeUserResult(register_info.offset)
           res == IF end > SizeOfUser THEN Panic
                  ELSE IF ~IsOk(TryInto8(raw)) THEN TryInto8(raw)
                  ELSE poke
           submitted == end <= SizeOfUser /\ IsOk(TryInto8(raw))
       IN rg' = [rg EXCEPT
                   !.at = "written",
                   !.info = register_info, !.value = value, !.res = res,
                   !.winfo = register_info, !.wvalue = value, !.wres = res,
                   !.sub = IF submitted
                           THEN <<[offset |-> register_info.offset,
                                   payload |-> payload]>>
                           ELSE <<>>,
                   !.area = IF submitted
                            THEN WriteUserArea(rg.area, register_info.offset, payload)
                            ELSE rg.area,
                   !.got = <<>>, !.fresh = FALSE, !.intact = intact]
    /\ UNCHANGED <<procs, ctl, pc, cur, chan, calls, last, sh>>

\* the snapshot is fetched again from the process after a write
Fetch ==
    /\ rg.at = "written"
    /\ rg' = [rg EXCEPT !.at = "fetched", !.data = rg.area, !.fresh = TRUE,
                        !.sub = <<>>, !.got = <<>>, !.res = Ok]
    /\ UNCHANGED <<procs, ctl, pc, cur, chan, calls, last, sh>>

\* Registers::read, lines 71-86, with read_value, lines 62-69.  `p` points to a
\* temporary copy of the snapshot; the borrow is the operand of a cast that
\* initialises the `let` of line 66, so the copy lives to the end of read_value
\* and line 68 reads size_of::<T>() bytes of it at the offset
Read(info) ==
    /\ rg.at \in {"ready", "fetched"}
    /\ LET tag == ReadAs(info)
           size == IF tag = "none" THEN 0 ELSE SizeOfValue(tag)
           bytes == Slice(rg.data, info.offset, info.offset + size)
       IN rg' = [rg EXCEPT
                   !.at = "read", !.info = info, !.sub = <<>>,
                   !.res = IF tag = "none"
                           THEN Err("unexpected size of register") ELSE Ok,
                   !.got = IF tag = "none" THEN <<>> ELSE <<Value(tag, bytes)>>]
    /\ UNCHANGED <<procs, ctl, pc, cur, chan, calls, last, sh>>

\* Value::widen is called
WidenCall(value) ==
    /\ rg.at = "ready"
    /\ rg' = [rg EXCEPT
                !.at = "widened", !.value = value, !.sub = <<>>,
                !.res = IF Widen(value) = Panic THEN Panic ELSE Ok,
                !.got = IF Widen(value) = Panic THEN <<>> ELSE <<Widen(value)>>]
    /\ UNCHANGED <<procs, ctl, pc, cur, chan, calls, last, sh>>

RegInit ==
    /\ ProcessInit
    /\ sh = NoSession
    /\ rg = RegistersInit

RegNext ==
    \/ \E info \in RegisterInfos, value \in Values, intact \in BOOLEAN :
          Write(info, value, intact)
    \/ Fetch
    \/ \E info \in ReadInfos : Read(info)
    \/ \E value \in Values : WidenCall(value)

RegSpec == RegInit /\ [][RegNext]_vars

----------------------------------------------------------------------------
(* Properties *)

\* the operation recorded in `last` is over (returned, or aborted the debugger)
Finished == pc \in {"idle", "aborted"}
Returned == pc = "idle"

\* the recorded operation issued no signal, ptrace or wait call
NoCalls == calls = <<>>

CallsNamed(name) == {i \in 1..Len(calls) : calls[i].call = name}

\* C1: terminal states are absorbing.  Once a Process value's state is Exited,
\* Terminated or FailedToLaunch, no step of any operation (resume and
\* wait_on_signal included, in any order, any number of times) gives that value
\* another state.
C1_TerminalAbsorbing ==
    [][\A c \in CtlIds :
          (ctl[c].status # "free" /\ ctl[c].state \in TerminalStates
              /\ ctl'[c].status # "free")
          => ctl'[c].state = ctl[c].state]_vars

\* C1 witness: resume or wait_on_signal has been called, and has returned, on a
\* Process value the caller holds whose state was terminal.
C1_Witness ==
    /\ Returned
    /\ last.op \in {"resume", "wait"}
    /\ last.proc.state \in {"Exited", "Terminated"}
    /\ ctl[last.c].status = "live"
    /\ ctl[last.c].state = last.proc.state

\* C2 (as claimed): every detach request of a drop is issued while the Process
\* value's state is Stopped, and when the drop began in state Running a SIGSTOP
\* and a completed wait precede it.
C2_DetachOnlyWhenStopped ==
    \A i \in CallsNamed("detach") :
        /\ calls[i].state = "Stopped"
        /\ (last.op = "drop" /\ last.proc.state = "Running") =>
              /\ i = 3
              /\ calls[1].call = "kill" /\ calls[1].sig = "SIGSTOP"
              /\ calls[2].call = "waitpid" /\ IsOk(calls[2].res)

\* C3 (as claimed): the drop of a Process value that owns its process and whose
\* state is Stopped or Running ends normally, its last two calls being a
\* successful SIGKILL and a successful waitpid, and leaves the process reaped.
C3_OwnerDropReaps ==
    (/\ Finished
     /\ last.op = "drop"
     /\ last.proc.terminate_on_end = "YES"
     /\ last.proc.state \in {"Stopped", "Running"})
    => /\ Returned
       /\ Len(calls) >= 2
       /\ LET k == calls[Len(calls) - 1]
              w == calls[Len(calls)]
          IN /\ k.call = "kill" /\ k.sig = "SIGKILL" /\ IsOk(k.res)
             /\ w.call = "waitpid" /\ IsOk(w.res)
       /\ procs[last.pid].st = "gone"

C5_NoProcessRemains ==
    (Returned /\ last.op = "launch" /\ last.path = "missing") =>
        /\ procs[last.pid].img # "caller"
        /\ procs[last.pid].st \notin {"running", "stopped", "zombie"}

\* C6 (as claimed): a traced launch returns a Process value only if the child
\* exec'ed the target program and after the initial wait; the value is Stopped,
\* owns the process and is attached.
C6_TracedLaunchReturnsStopped ==
    (Returned /\ last.op = "launch" /\ last.debug = "YES" /\ IsOk(last.res)) =>
        /\ procs[last.pid].img = "target"
        /\ Len(calls) = 1 /\ calls[1].call = "waitpid" /\ IsOk(calls[1].res)
        /\ ctl[last.c].status = "live"
        /\ ctl[last.c].state = "Stopped"
        /\ ctl[last.c].terminate_on_end = "YES"
        /\ ctl[last.c].is_attached = "YES"

\* C7 (as claimed): attach with process identifier 0 fails with InvalidTarget and
\* issues no attach request.
C7_AttachZeroNoSyscall ==
    (Returned /\ last.op = "attach" /\ last.pid = 0) =>
        /\ last.res = Err("InvalidTarget")
        /\ CallsNamed("attach") = {}

\* C7 (amended): attach with process identifier 0 issues the attach request,
\* which the kernel refuses with ESRCH; attach returns that error at once,
\* builds no Process value and issues no other call.
C7_AttachZeroFailsESRCH ==
    (last.op = "attach" /\ last.pid = 0) =>
        /\ Returned
        /\ last.res = Err("ESRCH")
        /\ last.c = NoCtl
        /\ Len(calls) = 1
        /\ calls[1].call = "attach" /\ calls[1].pid = 0
        /\ calls[1].res = Err("ESRCH")

\* C7 witness: attach(0) has returned.
C7_Witness == Returned /\ last.op = "attach" /\ last.pid = 0

\* a StopReason as wait_on_signal returned it, with the Process value's state
\* equal to its state
ReasonIn(S) ==
    /\ IsOk(last.res)
    /\ last.reason.process_state \in S
    /\ ctl[last.c].state = last.reason.process_state

\* C8 (as claimed): resume of any Process value in state Stopped succeeds and
\* makes it Running, and a wait_on_signal right after a successful resume
\* returns a StopReason that is Exited or Stopped.
C8_AnyStoppedResumes ==
    /\ (Returned /\ last.op = "resume" /\ last.proc.state = "Stopped") =>
           IsOk(last.res) /\ ctl[last.c].state = "Running"
    /\ (Returned /\ last.op = "wait" /\ last.follows) =>
           ReasonIn({"Exited", "Stopped"})

\* C8 (amended): resume of a Process value in state Stopped whose process is at
\* that moment stopped under the debugger's trace succeeds and makes the value
\* Running; a wait_on_signal right after a successful resume returns a
\* StopReason that is Exited, Stopped or Terminated, and the Process value's
\* state equals it.
C8_TracedStoppedResumes ==
    /\ (/\ Returned /\ last.op = "resume"
        /\ last.proc.state = "Stopped"
        /\ last.pst = "stopped" /\ last.ptraced) =>
           IsOk(last.res) /\ ctl[last.c].state = "Running"
    /\ (Returned /\ last.op = "wait" /\ last.follows) =>
           ReasonIn({"Exited", "Stopped", "Terminated"})

\* C8 witness: a wait_on_signal right after a successful resume of a Stopped
\* Process value has returned.
C8_Witness ==
    /\ Returned
    /\ last.op = "wait" /\ last.follows
    /\ IsOk(last.res)
    /\ last.reason.process_state \in {"Exited", "Stopped", "Terminated"}

\* C9: resume of a Process value whose process has already exited (a zombie, or
\* reaped) returns ESRCH and leaves the value's state as it was.
C9_ResumeAfterExit ==
    (Returned /\ last.op = "resume" /\ last.pst \in {"zombie", "gone"}) =>
        /\ last.res = Err("ESRCH")
        /\ ctl[last.c].state = last.proc.state

\* C9 witness: resume was called on a launched Process value that had observed
\* the exit of its process.
C9_Witness ==
    /\ Returned
    /\ last.op = "resume" /\ last.pst = "gone"
    /\ last.proc.state = "Exited" /\ last.proc.terminate_on_end = "YES"
    /\ last.res = Err("ESRCH")

\* C10: the drop of a Process value whose pid is 0 or whose state is Exited,
\* Terminated or FailedToLaunch issues no system call and does not abort: a drop
\* by the caller of such a value, and the drop inside a failed launch of the
\* value marked FailedToLaunch.
C10_DropOfFinishedIsNoop ==
    /\ (/\ last.op = "drop"
        /\ last.proc.pid = 0 \/ last.proc.state \in TerminalStates)
       => NoCalls /\ IsOk(last.res) /\ pc \in {"drop", "idle"}
    /\ \A c \in CtlIds :
          (pc = "drop" /\ cur = c /\ ctl[c].state = "FailedToLaunch")
          => NoCalls
    /\ (last.op = "launch" /\ last.res[1] = "child failed to launch")
       => NoCalls /\ pc \in {"drop", "idle"}

\* C10 witness: a traced process exited, wait_on_signal observed it, and the
\* Process value has been dropped.
C10_Witness ==
    /\ Returned
    /\ last.op = "drop"
    /\ last.proc.state = "Exited" /\ last.proc.is_attached = "YES"
    /\ last.proc.terminate_on_end = "YES"
    /\ ctl[last.c].status = "free"

\* the calls the drop code has issued in the recorded operation
DropCalls(name) == {i \in CallsNamed(name) : calls[i].fn = "drop"}
DropSignals(sig) == {i \in DropCalls("kill") : calls[i].sig = sig}

\* C11: a drop issues the detach request strictly before the SIGCONT: every
\* SIGCONT comes right after a successful detach and no detach follows a
\* SIGCONT, and the completed drop of a traced Process value that was Stopped or
\* Running has issued both.  The drop of a Process value made by attach
\* (terminate_on_end = NO) never sends SIGKILL and makes no wait after the
\* detach, and once it has returned the process is untraced and is not left
\* stopped.
C11_DetachThenContinue ==
    /\ \A i \in DropSignals("SIGCONT") :
          /\ i > 1
          /\ calls[i - 1].call = "detach" /\ IsOk(calls[i - 1].res)
          /\ \A j \in DropCalls("detach") : j < i
    /\ (/\ Returned /\ last.op = "drop"
        /\ last.proc.is_attached = "YES"
        /\ last.proc.state \in {"Stopped", "Running"})
       => DropCalls("detach") # {} /\ DropSignals("SIGCONT") # {}
    /\ (last.op = "drop" /\ last.proc.terminate_on_end = "NO") =>
          /\ DropSignals("SIGKILL") = {}
          /\ \A w \in DropCalls("waitpid"), d \in DropCalls("detach") : w < d
          /\ pc \notin {"drop_kill", "drop_reap"}
          /\ (Returned /\ last.proc.state \in {"Stopped", "Running"}) =>
                /\ ~procs[last.pid].traced
                /\ procs[last.pid].st # "stopped"

\* C11 witness: a Process value made by attach was dropped while Running; the
\* drop stopped the process, detached, sent SIGCONT and returned, and the
\* process runs on its own.
C11_Witness ==
    /\ Returned
    /\ last.op = "drop"
    /\ last.proc.terminate_on_end = "NO" /\ last.proc.state = "Running"
    /\ Len(calls) = 4
    /\ calls[3].call = "detach" /\ calls[4].sig = "SIGCONT"
    /\ procs[last.pid].st = "running" /\ ~procs[last.pid].traced

\* C12: after every successful wait_on_signal the Process value's state equals
\* the process_state of the StopReason returned, which is Stopped for a
\* stopped-by-signal wait status, Exited for a normal exit and Terminated for a
\* kill by a signal; the stop_cause is an exit code (the one of the wait status)
\* exactly when the state is Exited, and a signal (the one of the wait status)
\* exactly when it is Stopped or Terminated.
C12_StateFollowsStopReason ==
    (Returned /\ last.op = "wait" /\ IsOk(last.res)) =>
        /\ ctl[last.c].state = last.reason.process_state
        /\ last.ws.k \in {"Stopped", "Exited", "Signaled"}
        /\ last.ws.k = "Stopped" <=> last.reason.process_state = "Stopped"
        /\ last.ws.k = "Exited" <=> last.reason.process_state = "Exited"
        /\ last.ws.k = "Signaled" <=> last.reason.process_state = "Terminated"
        /\ last.reason.stop_cause.tag = "Code"
              <=> last.reason.process_state = "Exited"
        /\ last.reason.stop_cause.tag = "Signal"
              <=> last.reason.process_state \in {"Stopped", "Terminated"}
        /\ last.reason.stop_cause.tag = "Code"
              => last.reason.stop_cause.code = last.ws.code
        /\ last.reason.stop_cause.tag = "Signal"
              => last.reason.stop_cause.signal = last.ws.sig

\* C12 witness: a wait_on_signal has returned the StopReason of a process killed
\* by a signal.
C12_Witness ==
    /\ Returned /\ last.op = "wait" /\ IsOk(last.res)
    /\ last.ws.k = "Signaled"
    /\ last.reason.process_state = "Terminated"
    /\ ctl[last.c].state = "Terminated"

\* the command loop has printed the outcome of a successful wait_on_signal
Reported ==
    /\ sh.at = "prompt" /\ sh.waited
    /\ last.op = "wait" /\ IsOk(last.res)

\* the text after "process id <pid>" in the line the command loop printed
ReportedText == SubSeq(sh.out, 4, Len(sh.out))

\* C13 (as claimed): a StopReason is printed as "stopped with cause signal
\* <name>" when its state is Stopped, as "terminated with signal <name>" when
\* it is Terminated, and as "terminated with exit code <n>" when it is Exited.
C13_StopReasonRendering ==
    Reported =>
        LET r == last.reason
        IN /\ r.process_state = "Stopped" =>
                 ReportedText = <<"stopped", "with", "cause", "signal",
                                  r.stop_cause.signal>>
           /\ r.process_state = "Terminated" =>
                 ReportedText = <<"terminated", "with", "signal",
                                  r.stop_cause.signal>>
           /\ r.process_state = "Exited" =>
                 ReportedText = <<"terminated", "with", "exit", "code",
                                  ToString(r.stop_cause.code)>>

\* a line the command loop does not recognise: not empty, and without a first
\* word that is a prefix of "continue"
Unrecognised(line) ==
    /\ line \in Lines /\ line # <<>>
    /\ LET tokens == SplitAsciiWhitespace(line)
       IN tokens = <<>> \/ ~StartsWith(Continue, tokens[1])

\* C17 (as claimed): a line that is not recognised, a line of blanks included,
\* is a no-op: no resume and no wait is issued for it, the Process value's
\* state stays what it was when the line was read, and the loop goes back to
\* its prompt.
C17_UnrecognisedIsNoop ==
    Unrecognised(sh.line) =>
        /\ sh.at \in {"handle", "prompt"}
        /\ ~sh.resumed /\ ~sh.waited
        /\ ctl[sh.c].state = sh.state0

\* the value kind a descriptor is read as and written with, and a value of it
Matches(info, value) == value.tag = ReadAs(info)

\* offset of the 8-byte word that holds the byte at `offset`
AlignedOffset(offset) == offset - (offset % 8)

\* a write has returned: Registers::write was called with rg.info and rg.value,
\* and the memory it read through its dangling view still held what it had stored
Written == rg.at = "written" /\ rg.intact

\* C14 (as claimed): the write of a 1-byte value to a 1-byte sub-register (low
\* or high byte) succeeds and submits one word, which covers the 8-byte
\* register the sub-register aliases and in which every byte but the
\* sub-register's own equals the byte of the snapshot.
C14_ByteWriteKeepsSiblings ==
    (Written /\ rg.info.kind = "SubGeneralPurpose" /\ rg.info.size = 1
        /\ Len(rg.value.bytes) = 1) =>
        /\ IsOk(rg.res)
        /\ Len(rg.sub) = 1
        /\ LET parent == AlignedOffset(rg.info.offset)
               first == rg.sub[1].offset
           IN \A i \in parent..(parent + 7) :
                 /\ i >= first /\ i < first + Len(rg.sub[1].payload)
                 /\ i # rg.info.offset => rg.sub[1].payload[i - first + 1] = rg.data[i]

\* C15 (as claimed): the write of a value of the kind of the descriptor
\* succeeds, for descriptors of 1, 2, 4, 8 and 16 bytes, and a read of the
\* same register from the snapshot fetched after the write yields the value
\* written.
C15_WriteReadRoundTrip ==
    /\ (Written /\ Matches(rg.info, rg.value)) => IsOk(rg.res)
    /\ (rg.at = "read" /\ rg.intact /\ rg.fresh /\ rg.info = rg.winfo
           /\ Matches(rg.winfo, rg.wvalue)) =>
          /\ IsOk(rg.wres) /\ IsOk(rg.res)
          /\ rg.got = <<rg.wvalue>>

\* C16 (as claimed): a write of a value whose byte size differs from the size
\* of the descriptor fails with an error and submits nothing to the process.
C16_SizeMismatchRejected ==
    (Written /\ Len(rg.value.bytes) # rg.info.size) =>
        /\ ~IsOk(rg.res) /\ rg.res # Panic
        /\ rg.sub = <<>>
        /\ rg.area = rg.data

\* C18 (as claimed): the write of a value of the descriptor's kind to a register
\* that is not of the floating-point kind, a high-byte sub-register included,
\* submits one word: at the 8-byte aligned offset of the word holding the
\* register, and equal to the snapshot's word with the value laid over it at
\* the register's place.
C18_AlignedWordSubmitted ==
    (Written /\ rg.info.kind # "FloatingPoint" /\ Matches(rg.info, rg.value)) =>
        /\ Len(rg.sub) = 1
        /\ rg.sub[1].offset = AlignedOffset(rg.info.offset)
        /\ rg.sub[1].payload =
              Slice(CopyFromSlice(rg.data, rg.info.offset, rg.value.bytes),
                    AlignedOffset(rg.info.offset),
                    AlignedOffset(rg.info.offset) + 8)

\* C19 (as claimed): Value::widen returns, for a value of every variant, 16
\* bytes that begin with the value's own bytes and are zero after them.
C19_WidenTotal ==
    rg.at = "widened" =>
        /\ IsOk(rg.res)
        /\ Len(rg.got) = 1
        /\ Len(rg.got[1]) = 16
        /\ \A j \in 1..16 :
              rg.got[1][j] = IF j <= Len(rg.value.bytes) THEN rg.value.bytes[j] ELSE 0

\* launch is at the pipe: before line 129, or in read_from_pipe
AtPipe == pc \in {"launch_close", "launch_read"}

\* C20: launch never blocks forever on the pipe.  Whatever the child does (exec,
\* a failed exec, giving up before exec) and however its steps interleave with
\* the parent's, a launch that has forked gets past read_from_pipe.
C20_LaunchReadTerminates == AtPipe ~> ~AtPipe

\* C20 witness: the read of a traced launch came back empty (the child's write
\* side was closed by exec) and launch is at its initial wait.
C20_Witness ==
    /\ pc = "launch_wait"
    /\ last.op = "launch" /\ last.path = "good" /\ last.debug = "YES"
    /\ chan = NoChan

\* the requests a drop makes of a process it still manages: detach, SIGCONT, SIGKILL
DropRequests ==
    DropCalls("detach") \cup DropSignals("SIGCONT") \cup DropSignals("SIGKILL")

\* the drop of a traced Process value in state Running has waited after its
\* SIGSTOP and the wait reported that the process exited or was killed
DropSawEnd ==
    /\ last.op = "drop"
    /\ last.proc.is_attached = "YES" /\ last.proc.state = "Running"
    /\ ctl[last.c].status = "live"
    /\ ctl[last.c].state \in {"Exited", "Terminated"}

\* C21 (as claimed): a drop issues no detach, SIGCONT or SIGKILL while the
\* Process value's state is Exited or Terminated; when the wait after the
\* SIGSTOP of a Running tracee reports an exit or a kill, the SIGSTOP and that
\* wait are the drop's only calls and the drop does not abort.
C21_NoRequestAfterEndObserved ==
    /\ \A i \in DropRequests : calls[i].state \notin {"Exited", "Terminated"}
    /\ DropSawEnd =>
          /\ Len(calls) = 2
          /\ calls[1].sig = "SIGSTOP" /\ calls[2].call = "waitpid"
          /\ pc # "aborted"

\* the command loop is waiting for input, or has left the loop on a readline error
AwaitingInput == sh.at \in {"prompt", "leave"}

\* main's Process value is being disposed of, or has been: the session has
\* ended or the panic of a command has unwound
Disposing == sh.at \in {"ended", "unwound"} /\ last.op = "drop"

\* C22: in the command loop every successful resume is followed by a
\* wait_on_signal before the next line is read: while the loop waits for input
\* the operation made last is not a successful resume, and a command that
\* resumed successfully has also waited.  So the state of main's Process value
\* is Running, while the loop waits for input and when the value is disposed
\* of at the end of the session, only if that wait_on_signal returned an error.
C22_ResumeThenWait ==
    /\ AwaitingInput =>
          /\ ~(last.op = "resume" /\ IsOk(last.res))
          /\ (sh.resumed /\ sh.out # <<"ESRCH">>) => sh.waited
          /\ sh.waited => (last.op = "wait" /\ last.follows)
          /\ ctl[sh.c].state = "Running" => sh.werr
    /\ Disposing =>
          /\ ~last.follows
          /\ last.proc.state = "Running" => sh.werr

\* C22 witness: a "continue" command resumed the process and waited for it,
\* the stop was reported, and the loop waits for input with the Process value
\* in the state the wait observed.
C22_Witness ==
    /\ sh.at = "prompt"
    /\ sh.resumed /\ sh.waited
    /\ last.op = "wait" /\ IsOk(last.res) /\ last.follows
    /\ last.proc.state = "Running"
    /\ ctl[sh.c].state \in {"Stopped", "Exited", "Terminated"}

\* the snapshot a read started from: the one the debugger began with, or the
\* one fetched after a write
SnapshotRead == IF rg.fresh THEN rg.area ELSE Snapshot

\* the bytes of the snapshot a descriptor names, `n` of them
BytesAt(info, n) == Slice(SnapshotRead, info.offset, info.offset + n)

\* read has returned `tag` with the `n` bytes at the descriptor's offset
ReadGot(tag, n) ==
    /\ IsOk(rg.res)
    /\ rg.got = <<Value(tag, BytesAt(rg.info, n))>>
    /\ Len(rg.got[1].bytes) = n

\* C23: read of an unsigned descriptor of 1, 2, 4 or 8 bytes returns the
\* unsigned value of that many bytes found at the descriptor's offset, and an
\* error and no value for any other size; read of a vector descriptor returns
\* the 8 bytes at the offset when the size is 8 and the 16 bytes at the offset
\* otherwise; the snapshot is what it was before the read.
C23_ReadDecodes ==
    rg.at = "read" =>
        /\ (rg.info.format = "Uint" /\ rg.info.size = 1) => ReadGot("U8", 1)
        /\ (rg.info.format = "Uint" /\ rg.info.size = 2) => ReadGot("U16", 2)
        /\ (rg.info.format = "Uint" /\ rg.info.size = 4) => ReadGot("U32", 4)
        /\ (rg.info.format = "Uint" /\ rg.info.size = 8) => ReadGot("U64", 8)
        /\ (rg.info.format = "Uint" /\ rg.info.size \notin {1, 2, 4, 8}) =>
              /\ rg.res = Err("unexpected size of register")
              /\ rg.got = <<>>
        /\ (rg.info.format = "Vector" /\ rg.info.size = 8) => ReadGot("B64", 8)
        /\ (rg.info.format = "Vector" /\ rg.info.size # 8) => ReadGot("B128", 16)
        /\ rg.data = SnapshotRead

\* C23 witness: an unsigned descriptor of 3 bytes was read and the read
\* returned the error, after a write and a fetch of the snapshot.
C23_Witness ==
    /\ rg.at = "read" /\ rg.fresh
    /\ rg.info.format = "Uint" /\ rg.info.size = 3
    /\ ~IsOk(rg.res)

====
